---- MODULE Spec2Model ----
(***************************************************************************)
(* Model of alkivi/odoo/client.py: the Client wrapper around the remote    *)
(* ERP gateway and its create_invoice workflow.                            *)
(*                                                                         *)
(* One run of create_invoice is a process whose position is pc; every      *)
(* remote call it issues is appended to calls.  The gateway (odoorpc and   *)
(* the ERP behind it) is the environment: the result of                    *)
(* button_reset_taxes and the tax lines it computes are chosen             *)
(* nondeterministically from small sets (a falsy result computes no tax    *)
(* line); ids come from a counter.  Persisting a change of a browsed       *)
(* record takes a write_record call.                                       *)
(* Browsed records are taken to expose the attributes the code reads       *)
(* (__data__, tax_line, tax_code_id, amount, id, number).                  *)
(*                                                                         *)
(* Amounts are hundredths of a currency unit, standing for the Python      *)
(* floats with these two decimals.  Equality of two amounts is equality    *)
(* of their hundredths; the comparison of a difference with 0.80 is made   *)
(* on the floats (ExceedsThreshold), whose rounding decides it when the    *)
(* hundredths are exactly 80 apart.                                        *)
(***************************************************************************)
EXTENDS Integers, Sequences, FiniteSets, TLC

\* ---------------------------------------------------------------- bounds
MaxLines == 2
MaxTaxLines == 2

\* the width of a limb of the long arithmetic below
LimbBits == 15

\* ------------------------------------------------------ program constants
\* abs(...) > 0.80, in hundredths
Threshold == 80

\* the states create_invoice accepts
ValidStates == {"draft", "open"}

\* the attributes of class Client (its methods) and the functions of the
\* standard logging module the code refers to; looking up any other name
\* raises AttributeError
ClientMethods == {"login", "execute", "get", "read", "search", "create",
                  "exec_workflow", "browse", "fetch_product", "fetch_tax",
                  "fetch_account", "fetch_partner", "fetch_customer",
                  "fetch_supplier", "create_invoice"}
LoggingFunctions == {"debug", "info", "warning", "error", "critical",
                     "exception", "log"}

\* -------------------------------------------------------- input universes
\* the amounts a caller expects (tax_amount, vat_amount) and the amounts
\* the gateway computes: equal, 0.50, 0.80 and 1.30 apart all occur
ExpectedAmounts == {0, 1000, 1130}
ComputedAmounts == {1000, 1050}

\* account.tax ids known to the gateway and the tax code each belongs to:
\* 7 and 9 share a tax code; browsing any other id gives an empty record
TaxIds == {7, 8, 9}
TaxCodeOf == [t \in TaxIds |-> CASE t = 7 -> 70 [] t = 8 -> 80 [] t = 9 -> 70]
TaxCodes == {70, 80}

\* Optional values: <<>> is None, <<v>> is the value v
None == <<>>
Some(v) == <<v>>

\* A line spec (one dict of lines_data): the keys present and the values
\* of the keys the code reads (0 / <<>> / 0 for an absent key).
\* invoice_line_tax_id is a list of (6, 0, [ids]) tuples, each tuple kept
\* by its third component.
Line(ks, v, t) == [keys |-> ks, vat_amount |-> v, invoice_line_tax_id |-> t, invoice_id |-> 0]
LineSpecs ==
    { Line({"invoice_line_tax_id"}, 0, << <<7>> >>),
      Line({"vat_amount"}, 1000, <<>>),
      Line({"vat_amount", "invoice_line_tax_id"}, 1000, << <<7, 8>> >>),
      Line({"vat_amount", "invoice_line_tax_id"}, 1000, << <<7>> >>),
      Line({"vat_amount", "invoice_line_tax_id"}, 1000, << <<8>> >>),
      Line({"vat_amount", "invoice_line_tax_id"}, 1130, << <<9>> >>) }

SeqsUpTo(S, n) == UNION { [1..k -> S] : k \in 0..n }

\* a tax line record as the gateway computes it
TaxLines == [tax_code_id : TaxCodes, amount : ComputedAmounts]

\* attachment_data: None, or a dict given by its keys and the two values
\* the code sets
NoAttachment == [keys |-> {}, res_id |-> 0, res_name |-> 0]
SomeAttachment == [keys |-> {"name"}, res_id |-> 0, res_name |-> 0]
NamelessAttachment == [keys |-> {"datas"}, res_id |-> 0, res_name |-> 0]
Attachments == {NoAttachment, SomeAttachment, NamelessAttachment}

\* ----------------------------------------------------------------- state
VARIABLES
    pc,               \* position of the create_invoice run
    initialized,      \* Client.initialized
    password,         \* Client.password: None, or the password still held
    taxes_cache,      \* Client.taxes_cache: vat_index -> tax record id
    products_cache,   \* Client.products_cache: vat_index -> product record id
    history,          \* the resolver and wrapper calls made, with their outcome
    criteria,         \* gateway: each search with its criteria and its answer
    invoice_data,     \* the keys of the header dict
    lines_data,       \* the caller's list of line specs (mutated in place)
    attachment_data,  \* the caller's attachment dict (mutated in place)
    state,            \* local variable state
    tax_amount,       \* argument tax_amount (None or a number)
    invoice_id,       \* local variable invoice_id (0 before the create)
    i,                \* position in a loop over lines_data
    j,                \* position in a loop over invoice.tax_line
    vat_data_to_fix,  \* local dict tax code -> expected amount
    result,           \* local variable result (None before the execute)
    returned,         \* None, or the value create_invoice returned
    error,            \* "" or the exception create_invoice raised
    log,              \* records emitted above debug level
    calls,            \* remote calls issued, in order
    next_id,          \* gateway: id of the next created record
    remote_lines,     \* gateway: account.invoice.line payloads created
    computed,         \* gateway: the tax lines as button_reset_taxes computed them
    tax_lines,        \* the tax line records of the invoice (invoice.tax_line)
    inv_state,        \* gateway: "none", "draft" or "open"
    attachments       \* gateway: ir.attachment payloads created

vars == <<pc, initialized, invoice_data, lines_data, attachment_data, state,
          tax_amount, invoice_id, i, j, vat_data_to_fix, result, returned, error,
          log, calls, next_id, remote_lines, computed, tax_lines, inv_state,
          attachments, password, taxes_cache, products_cache, history, criteria>>

client_vars == <<invoice_data, lines_data, attachment_data, state, tax_amount,
                 invoice_id, i, j, vat_data_to_fix, result>>
gateway_vars == <<next_id, remote_lines, computed, tax_lines, inv_state, attachments>>
resolver_vars == <<taxes_cache, products_cache, history, criteria>>
invoice_vars == <<pc, client_vars, returned, error, log, gateway_vars>>

\* ------------------------------------------------------------- helpers
Abs(x) == IF x < 0 THEN -x ELSE x

\* truth value of an optional number (`if tax_amount:`)
Truthy(opt) == opt # None /\ opt[1] # 0

\* ------------------------------------------------ binary floating point
\* Amounts are Python floats (IEEE 754 binary64).  A float x > 0 is kept
\* as [m, e]: m its 53 significand bits, most significant first, and
\* x = m * 2^e; [m |-> <<>>, e |-> 0] is 0.0.  Long numbers are bit
\* strings; sums, differences and quotients are taken on their limbs of
\* LimbBits bits.
Zeros(n) == [k \in 1..n |-> 0]
Ones(bs) == {k \in DOMAIN bs : bs[k] = 1}
Min(S) == CHOOSE k \in S : \A l \in S : k <= l
Max(S) == CHOOSE k \in S : \A l \in S : l <= k

\* bs without its leading zeros
Strip(bs) == IF Ones(bs) = {} THEN <<>> ELSE SubSeq(bs, Min(Ones(bs)), Len(bs))

\* the bits of a natural number below 2^31
Bits(n) == Strip([k \in 1..31 |-> (n \div 2^(31 - k)) % 2])

\* bs + 1
Inc(bs) ==
    IF Ones(bs) = DOMAIN bs THEN <<1>> \o Zeros(Len(bs))
    ELSE LET p == Max(DOMAIN bs \ Ones(bs))
         IN [k \in DOMAIN bs |-> IF k < p THEN bs[k] ELSE IF k = p THEN 1 ELSE 0]

\* the number a short bit string stands for
RECURSIVE Value(_)
Value(bs) == IF bs = <<>> THEN 0 ELSE 2 * Value(SubSeq(bs, 1, Len(bs) - 1)) + bs[Len(bs)]

\* a bit string as limbs, most significant first, and back
ToLimbs(bs) ==
    LET n == (Len(bs) + LimbBits - 1) \div LimbBits
        padded == Zeros(n * LimbBits - Len(bs)) \o bs
    IN [k \in 1..n |-> Value(SubSeq(padded, (k - 1) * LimbBits + 1, k * LimbBits))]
FromLimbs(ls) ==
    [k \in 1..(Len(ls) * LimbBits) |->
        (ls[(k - 1) \div LimbBits + 1] \div 2^(LimbBits - 1 - ((k - 1) % LimbBits))) % 2]

\* a + b + carry and a - b - borrow (a >= b) on limbs, the limbs done
\* collected in acc
RECURSIVE AddLimbs(_, _, _, _)
AddLimbs(a, b, carry, acc) ==
    IF a = <<>> THEN <<carry>> \o acc
    ELSE IF a[Len(a)] + b[Len(b)] + carry >= 2^LimbBits
    THEN AddLimbs(SubSeq(a, 1, Len(a) - 1), SubSeq(b, 1, Len(b) - 1), 1,
                  <<a[Len(a)] + b[Len(b)] + carry - 2^LimbBits>> \o acc)
    ELSE AddLimbs(SubSeq(a, 1, Len(a) - 1), SubSeq(b, 1, Len(b) - 1), 0,
                  <<a[Len(a)] + b[Len(b)] + carry>> \o acc)

RECURSIVE SubLimbs(_, _, _, _)
SubLimbs(a, b, borrow, acc) ==
    IF a = <<>> THEN acc
    ELSE IF a[Len(a)] - b[Len(b)] - borrow < 0
    THEN SubLimbs(SubSeq(a, 1, Len(a) - 1), SubSeq(b, 1, Len(b) - 1), 1,
                  <<a[Len(a)] - b[Len(b)] - borrow + 2^LimbBits>> \o acc)
    ELSE SubLimbs(SubSeq(a, 1, Len(a) - 1), SubSeq(b, 1, Len(b) - 1), 0,
                  <<a[Len(a)] - b[Len(b)] - borrow>> \o acc)

\* long division of limbs by the small number d: quotient limbs q and
\* remainder r
RECURSIVE DivLimbs(_, _, _, _)
DivLimbs(ls, d, r, q) ==
    IF ls = <<>> THEN [q |-> q, r |-> r]
    ELSE DivLimbs(Tail(ls), d, (r * 2^LimbBits + Head(ls)) % d,
                  Append(q, (r * 2^LimbBits + Head(ls)) \div d))

\* the float nearest to bits * 2^e (sticky: a non-zero part below bits
\* was cut off), ties to even
RoundFloat(bits, sticky, e) ==
    LET bs == Strip(bits)
        n == Len(bs)
    IN IF bs = <<>> THEN [m |-> <<>>, e |-> 0]
       ELSE IF n <= 53 THEN [m |-> bs \o Zeros(53 - n), e |-> e - (53 - n)]
       ELSE LET m == SubSeq(bs, 1, 53)
                more == sticky \/ \E k \in 55..n : bs[k] = 1
                up == bs[54] = 1 /\ (more \/ m[53] = 1)
                r == IF up THEN Inc(m) ELSE m
            IN IF Len(r) = 54
               THEN [m |-> SubSeq(r, 1, 53), e |-> e + (n - 53) + 1]
               ELSE [m |-> r, e |-> e + (n - 53)]

\* the float written with two decimals as h / 100 (0 <= h < 2^31)
FloatOfHundredths(h) ==
    LET d == DivLimbs(ToLimbs(Bits(h) \o Zeros(4 * LimbBits)), 100, 0, <<>>)
    IN RoundFloat(FromLimbs(d.q), d.r # 0, -(4 * LimbBits))

\* the significands of x and y over their smaller exponent, as limbs of
\* one length
Aligned(x, y) ==
    LET e == IF x.e < y.e THEN x.e ELSE y.e
        a == x.m \o Zeros(x.e - e)
        b == y.m \o Zeros(y.e - e)
        n == IF Len(a) < Len(b) THEN Len(b) ELSE Len(a)
    IN [a |-> ToLimbs(Zeros(n - Len(a)) \o a), b |-> ToLimbs(Zeros(n - Len(b)) \o b), e |-> e]

\* x + y, and x - y for x >= y
FloatAdd(x, y) ==
    IF x.m = <<>> THEN y ELSE IF y.m = <<>> THEN x
    ELSE RoundFloat(FromLimbs(AddLimbs(Aligned(x, y).a, Aligned(x, y).b, 0, <<>>)),
                    FALSE, Aligned(x, y).e)
FloatSub(x, y) ==
    IF y.m = <<>> THEN x
    ELSE RoundFloat(FromLimbs(SubLimbs(Aligned(x, y).a, Aligned(x, y).b, 0, <<>>)),
                    FALSE, Aligned(x, y).e)

\* x > y on floats
FloatGreater(x, y) ==
    IF x.m = <<>> THEN FALSE
    ELSE IF y.m = <<>> THEN TRUE
    ELSE IF x.e # y.e THEN x.e > y.e
    ELSE \E k \in 1..53 : x.m[k] > y.m[k] /\ \A l \in 1..(k - 1) : x.m[l] = y.m[l]

\* abs(a - b) of the floats a / 100 and b / 100
FloatAbsDiff(a, b) ==
    IF (a < 0) # (b < 0)
    THEN FloatAdd(FloatOfHundredths(Abs(a)), FloatOfHundredths(Abs(b)))
    ELSE IF Abs(a) >= Abs(b)
    THEN FloatSub(FloatOfHundredths(Abs(a)), FloatOfHundredths(Abs(b)))
    ELSE FloatSub(FloatOfHundredths(Abs(b)), FloatOfHundredths(Abs(a)))

\* abs(amount - correct) > 0.80 as the floats compare.  Two amounts whose
\* hundredths are not exactly 80 apart differ from 0.80 by far more than
\* the rounding of the floats, so only that case needs them.
ExceedsThreshold(amount, correct) ==
    IF Abs(amount - correct) # Threshold
    THEN Abs(amount - correct) > Threshold
    ELSE FloatGreater(FloatAbsDiff(amount, correct), FloatOfHundredths(Threshold))

\* a record emitted by the logging module
Logged(level, msg, arg) == [level |-> level, msg |-> msg, arg |-> arg]

Call(op, model, name, arg) == [op |-> op, model |-> model, name |-> name, arg |-> arg]

\* Client.login: one gateway login
Login(cs) == Append(cs, Call("login", "", "", 0))

\* self.password after a wrapper ran (called) on a client whose
\* initialized flag was init: login clears it
PasswordAfter(called, init, pw) == IF called /\ ~init THEN None ELSE pw

\* the wrappers create / execute / browse / exec_workflow: log in first
\* when the client is not initialized, then pass the call on
Wrapped(cs, init, c) == Append(IF init THEN cs ELSE Login(cs), c)

\* the invoice number the gateway assigns once the invoice is open
InvoiceNumber(st, id) == IF st = "open" THEN id + 1000 ELSE 0

\* Validate without the test of the requested state
ValidateWithoutState(inv, lines, st) ==
    IF inv = {} THEN "Missing invoice_data"
    ELSE IF lines = <<>> THEN "Missing lines_data"
    ELSE ""

\* the first failing precondition of create_invoice, "" when all hold
Validate(inv, lines, st) ==
    IF inv = {} THEN "Missing invoice_data"
    ELSE IF lines = <<>> THEN "Missing lines_data"
    ELSE IF st \notin ValidStates THEN "State is not valid"
    ELSE ""

\* dict assignment d[k] = v
DictSet(d, k, v) == [x \in DOMAIN d \cup {k} |-> IF x = k THEN v ELSE d[x]]
EmptyDict == [x \in {} |-> 0]

\* ---------------------------------------------------------------- Init
Init ==
    /\ pc = "idle"
    /\ initialized = FALSE
    /\ password = Some("secret")
    /\ taxes_cache = EmptyDict
    /\ products_cache = EmptyDict
    /\ history = <<>>
    /\ criteria = <<>>
    /\ invoice_data = {}
    /\ lines_data = <<>>
    /\ attachment_data = NoAttachment
    /\ state = "draft"
    /\ tax_amount = None
    /\ invoice_id = 0
    /\ i = 0
    /\ j = 0
    /\ vat_data_to_fix = EmptyDict
    /\ result = None
    /\ returned = None
    /\ error = ""
    /\ log = <<>>
    /\ calls = <<>>
    /\ next_id = 41
    /\ remote_lines = <<>>
    /\ computed = <<>>
    /\ tax_lines = <<>>
    /\ inv_state = "none"
    /\ attachments = <<>>

Raise(e) ==
    /\ pc' = "raised"
    /\ error' = e

\* create_invoice is called: the arguments are bound and the three
\* preconditions are checked
CreateInvoice ==
    /\ pc = "idle"
    /\ \E inv \in {{}, {"partner_id"}}, lines \in SeqsUpTo(LineSpecs, MaxLines),
          att \in Attachments,
          st \in {"draft", "open", "cancel"},
          ta \in {None} \cup {Some(a) : a \in ExpectedAmounts} :
        /\ invoice_data' = inv
        /\ lines_data' = lines
        /\ attachment_data' = att
        /\ state' = st
        /\ tax_amount' = ta
        /\ IF Validate(inv, lines, st) # ""
           THEN Raise(Validate(inv, lines, st))
           ELSE pc' = "header" /\ error' = error
    /\ UNCHANGED resolver_vars
    /\ UNCHANGED <<initialized, password, invoice_id, i, j, vat_data_to_fix, result,
                   returned, log, calls, gateway_vars>>

\* invoice_id = self.create('account.invoice', invoice_data)
CreateHeader ==
    /\ pc = "header"
    /\ calls' = Wrapped(calls, initialized, Call("create", "account.invoice", "", next_id))
    /\ initialized' = TRUE
    /\ password' = PasswordAfter(TRUE, initialized, password)
    /\ UNCHANGED resolver_vars
    /\ invoice_id' = next_id
    /\ next_id' = next_id + 1
    /\ inv_state' = "draft"
    /\ i' = 1
    /\ pc' = "lines"
    /\ UNCHANGED <<invoice_data, lines_data, attachment_data, state, tax_amount,
                   j, vat_data_to_fix, result, returned, error, log,
                   remote_lines, computed, tax_lines, attachments>>

\* CreateLine without the assignment line_data['invoice_id'] = invoice_id
CreateLineWithoutInvoiceId ==
    /\ pc = "lines"
    /\ i <= Len(lines_data)
    /\ lines_data' = lines_data
    /\ remote_lines' = Append(remote_lines, lines_data[i])
    /\ calls' = Wrapped(calls, initialized, Call("create", "account.invoice.line", "", next_id))
    /\ initialized' = TRUE
    /\ password' = PasswordAfter(TRUE, initialized, password)
    /\ UNCHANGED resolver_vars
    /\ next_id' = next_id + 1
    /\ i' = i + 1
    /\ pc' = IF i = Len(lines_data) THEN "taxes" ELSE "lines"
    /\ UNCHANGED <<invoice_data, attachment_data, state, tax_amount, invoice_id,
                   j, vat_data_to_fix, result, returned, error, log, computed,
                   tax_lines, inv_state, attachments>>

\* one iteration of `for line_data in lines_data`: inject invoice_id and
\* create the line
CreateLine ==
    /\ pc = "lines"
    /\ i <= Len(lines_data)
    /\ LET line == [lines_data[i] EXCEPT !.keys = @ \cup {"invoice_id"},
                                         !.invoice_id = invoice_id]
       IN /\ lines_data' = [lines_data EXCEPT ![i] = line]
          /\ remote_lines' = Append(remote_lines, line)
    /\ calls' = Wrapped(calls, initialized, Call("create", "account.invoice.line", "", next_id))
    /\ initialized' = TRUE
    /\ password' = PasswordAfter(TRUE, initialized, password)
    /\ UNCHANGED resolver_vars
    /\ next_id' = next_id + 1
    /\ i' = i + 1
    /\ pc' = IF i = Len(lines_data) THEN "taxes" ELSE "lines"
    /\ UNCHANGED <<invoice_data, attachment_data, state, tax_amount, invoice_id,
                   j, vat_data_to_fix, result, returned, error, log, computed,
                   tax_lines, inv_state, attachments>>

\* the create of a line fails and the error is swallowed: the loop goes on
CreateLineFailsIgnored ==
    /\ pc = "lines"
    /\ i <= Len(lines_data)
    /\ lines_data' = [lines_data EXCEPT ![i] = [@ EXCEPT !.keys = @ \cup {"invoice_id"},
                                                         !.invoice_id = invoice_id]]
    /\ calls' = Wrapped(calls, initialized, Call("create", "account.invoice.line", "raised", 0))
    /\ initialized' = TRUE
    /\ password' = PasswordAfter(TRUE, initialized, password)
    /\ UNCHANGED resolver_vars
    /\ i' = i + 1
    /\ pc' = IF i = Len(lines_data) THEN "taxes" ELSE "lines"
    /\ error' = "RemoteError"
    /\ UNCHANGED <<invoice_data, attachment_data, state, tax_amount, invoice_id,
                   j, vat_data_to_fix, result, returned, log, gateway_vars>>

\* one iteration of `for line_data in lines_data` in which the gateway
\* fails the create: invoice_id is injected, the call is issued, its
\* error propagates out of create_invoice
CreateLineFails ==
    /\ pc = "lines"
    /\ i <= Len(lines_data)
    /\ lines_data' = [lines_data EXCEPT ![i] = [@ EXCEPT !.keys = @ \cup {"invoice_id"},
                                                         !.invoice_id = invoice_id]]
    /\ calls' = Wrapped(calls, initialized, Call("create", "account.invoice.line", "raised", 0))
    /\ initialized' = TRUE
    /\ password' = PasswordAfter(TRUE, initialized, password)
    /\ UNCHANGED resolver_vars
    /\ Raise("RemoteError")
    /\ UNCHANGED <<invoice_data, attachment_data, state, tax_amount, invoice_id,
                   i, j, vat_data_to_fix, result, returned, log, gateway_vars>>

\* ComputeTaxes without the test `if not result`
ComputeTaxesIgnoringResult ==
    /\ pc = "taxes"
    /\ calls' = Wrapped(calls, initialized,
                        Call("execute", "account.invoice", "button_reset_taxes", invoice_id))
    /\ initialized' = TRUE
    /\ password' = PasswordAfter(TRUE, initialized, password)
    /\ UNCHANGED resolver_vars
    /\ \E r \in BOOLEAN, tl \in SeqsUpTo(TaxLines, MaxTaxLines) :
        /\ r \/ tl = <<>>
        /\ result' = Some(r)
        /\ computed' = tl
        /\ tax_lines' = tl
        /\ pc' = IF Truthy(tax_amount) THEN "reconcile" ELSE "post"
        /\ error' = error
    /\ UNCHANGED <<invoice_data, lines_data, attachment_data, state, tax_amount,
                   invoice_id, i, j, vat_data_to_fix, returned, log, next_id,
                   remote_lines, inv_state, attachments>>

\* result = self.execute('account.invoice', 'button_reset_taxes', [invoice_id])
\* and the test of the result and of tax_amount
ComputeTaxes ==
    /\ pc = "taxes"
    /\ calls' = Wrapped(calls, initialized,
                        Call("execute", "account.invoice", "button_reset_taxes", invoice_id))
    /\ initialized' = TRUE
    /\ password' = PasswordAfter(TRUE, initialized, password)
    /\ UNCHANGED resolver_vars
    /\ \E r \in BOOLEAN, tl \in SeqsUpTo(TaxLines, MaxTaxLines) :
        /\ r \/ tl = <<>>
        /\ result' = Some(r)
        /\ computed' = tl
        /\ tax_lines' = tl
        /\ IF ~r THEN Raise("Unable to compute taxes, WTF")
           ELSE /\ pc' = IF Truthy(tax_amount) THEN "reconcile" ELSE "post"
                /\ error' = error
    /\ UNCHANGED <<invoice_data, lines_data, attachment_data, state, tax_amount,
                   invoice_id, i, j, vat_data_to_fix, returned, log, next_id,
                   remote_lines, inv_state, attachments>>

\* invoice = self.browse('account.invoice', invoice_id) and the count of
\* its tax lines
ReadTaxLines ==
    /\ pc = "reconcile"
    /\ calls' = Wrapped(calls, initialized, Call("browse", "account.invoice", "", invoice_id))
    /\ initialized' = TRUE
    /\ password' = PasswordAfter(TRUE, initialized, password)
    /\ UNCHANGED resolver_vars
    /\ IF Len(tax_lines) = 0 THEN Raise("No tax yet, we should have") /\ UNCHANGED <<i, j>>
       ELSE IF Len(tax_lines) # 1
            THEN pc' = "collect" /\ i' = 1 /\ j' = j /\ error' = error
            ELSE pc' = "single" /\ j' = 1 /\ i' = i /\ error' = error
    /\ vat_data_to_fix' = EmptyDict
    /\ UNCHANGED <<invoice_data, lines_data, attachment_data, state, tax_amount,
                   invoice_id, result, returned, log, gateway_vars>>

\* what one iteration of the loop building vat_data_to_fix does with a
\* line spec: "skip" (should_fix_vat = False; break), "KeyError", or "ok"
LineCheck(line) ==
    IF "vat_amount" \notin line.keys THEN "skip"
    ELSE IF "invoice_line_tax_id" \notin line.keys THEN "KeyError"
    ELSE IF Len(line.invoice_line_tax_id) # 1 THEN "skip"
    ELSE IF Len(line.invoice_line_tax_id[1]) # 1 THEN "skip"
    ELSE IF line.invoice_line_tax_id[1][1] \notin TaxIds THEN "skip"
    ELSE "ok"

\* whether the iteration reaches tax = self.browse('account.tax', tax_id)
BrowsesTax(line) ==
    /\ {"vat_amount", "invoice_line_tax_id"} \subseteq line.keys
    /\ Len(line.invoice_line_tax_id) = 1
    /\ Len(line.invoice_line_tax_id[1]) = 1

\* one iteration of `for line_data in lines_data` in the multiple tax
\* lines case
CollectLine ==
    /\ pc = "collect"
    /\ i <= Len(lines_data)
    /\ LET line == lines_data[i]
           tax_id == line.invoice_line_tax_id[1][1]
           outcome == LineCheck(line)
       IN /\ calls' = IF BrowsesTax(line)
                      THEN Wrapped(calls, initialized, Call("browse", "account.tax", "", tax_id))
                      ELSE calls
          /\ log' = IF BrowsesTax(line) /\ outcome = "skip"
                    THEN Append(log, Logged("warning", "unable to fetch account.tax", tax_id))
                    ELSE log
          /\ CASE outcome = "KeyError" ->
                    Raise("KeyError") /\ UNCHANGED <<i, vat_data_to_fix>>
               [] outcome = "skip" ->
                    pc' = "skip" /\ UNCHANGED <<i, vat_data_to_fix, error>>
               [] outcome = "ok" ->
                    /\ vat_data_to_fix' = DictSet(vat_data_to_fix, TaxCodeOf[tax_id], line.vat_amount)
                    /\ i' = i + 1
                    /\ pc' = IF i = Len(lines_data) THEN "check" ELSE "collect"
                    /\ error' = error
    /\ initialized' = (initialized \/ BrowsesTax(lines_data[i]))
    /\ password' = PasswordAfter(BrowsesTax(lines_data[i]), initialized, password)
    /\ UNCHANGED resolver_vars
    /\ UNCHANGED <<invoice_data, lines_data, attachment_data, state,
                   tax_amount, invoice_id, j, result, returned, gateway_vars>>

\* the else branch of `if should_fix_vat`: the integrity check is skipped
\* and a state other than draft is forced to draft
ForceDraft ==
    /\ pc = "skip"
    /\ log' = IF state # "draft"
              THEN log \o <<Logged("info", "skipping integrity check", 0),
                            Logged("warning", "forcing state draft", 0)>>
              ELSE Append(log, Logged("info", "skipping integrity check", 0))
    /\ state' = "draft"
    /\ pc' = "post"
    /\ UNCHANGED resolver_vars
    /\ UNCHANGED <<initialized, password, invoice_data, lines_data, attachment_data,
                   tax_amount, invoice_id, i, j, vat_data_to_fix, result,
                   returned, error, calls, gateway_vars>>

\* all_is_correct: every tax line's tax code is a key of vat_data_to_fix
AllIsCorrect(tls, d) == \A k \in 1..Len(tls) : tls[k].tax_code_id \in DOMAIN d

\* the first loop over invoice.tax_line under `if should_fix_vat`
CheckTaxCodes ==
    /\ pc = "check"
    /\ IF AllIsCorrect(tax_lines, vat_data_to_fix)
       THEN pc' = "fix" /\ j' = 1 /\ log' = log
       ELSE /\ pc' = "post"
            /\ j' = j
            /\ log' = Append(log, Logged("warning", "trying to fix tax not ok", 0))
    /\ UNCHANGED resolver_vars
    /\ UNCHANGED <<initialized, password, invoice_data, lines_data, attachment_data, state,
                   tax_amount, invoice_id, i, vat_data_to_fix, result, returned,
                   error, calls, gateway_vars>>

\* The correction of one tax line whose amount is `amount` towards
\* `correct`: the message is logged by severity, the amount is assigned,
\* the record is written.  The result tells the amount the record ends
\* with, what was logged, whether write_record was called and the
\* exception raised ("" for none).
FixAmount(amount, correct) ==
    IF amount = correct
    THEN [amount |-> amount, logs |-> <<>>, wrote |-> FALSE, error |-> ""]
    ELSE IF ~ExceedsThreshold(amount, correct) /\ "important" \notin LoggingFunctions
    THEN [amount |-> amount, logs |-> <<>>, wrote |-> FALSE, error |-> "AttributeError"]
    ELSE LET level == IF ExceedsThreshold(amount, correct) THEN "warning" ELSE "important"
         IN IF "write_record" \notin ClientMethods
            THEN [amount |-> correct, logs |-> <<level>>, wrote |-> FALSE, error |-> "AttributeError"]
            ELSE [amount |-> correct, logs |-> <<level>>, wrote |-> TRUE, error |-> ""]

FixEffects(k, f) ==
    /\ tax_lines' = [tax_lines EXCEPT ![k].amount = f.amount]
    /\ log' = log \o [n \in 1..Len(f.logs) |-> Logged(f.logs[n], "fix tax_line amount", k)]
    /\ calls' = IF f.wrote
                THEN Wrapped(calls, initialized, Call("write_record", "account.invoice.tax", "", k))
                ELSE calls

\* one iteration of the second loop over invoice.tax_line
FixTaxLine ==
    /\ pc = "fix"
    /\ j <= Len(tax_lines)
    /\ IF tax_lines[j].tax_code_id \notin DOMAIN vat_data_to_fix
       THEN Raise("KeyError") /\ UNCHANGED <<j, tax_lines, log, calls>>
       ELSE LET f == FixAmount(tax_lines[j].amount, vat_data_to_fix[tax_lines[j].tax_code_id])
            IN /\ FixEffects(j, f)
               /\ IF f.error # "" THEN Raise(f.error) /\ j' = j
                  ELSE /\ j' = j + 1
                       /\ pc' = IF j = Len(tax_lines) THEN "post" ELSE "fix"
                       /\ error' = error
    /\ UNCHANGED resolver_vars
    /\ UNCHANGED <<initialized, password, invoice_data, lines_data, attachment_data, state,
                   tax_amount, invoice_id, i, vat_data_to_fix, result, returned,
                   next_id, remote_lines, computed, inv_state, attachments>>

\* the single tax line case; after a write it goes on to
\* logging.log('tax_line updated'), which lacks an argument
FixSingle ==
    /\ pc = "single"
    /\ LET f == FixAmount(tax_lines[j].amount, tax_amount[1])
       IN /\ FixEffects(j, f)
          /\ IF f.error # "" THEN Raise(f.error)
             ELSE IF f.wrote THEN Raise("TypeError")
             ELSE pc' = "post" /\ error' = error
    /\ UNCHANGED resolver_vars
    /\ UNCHANGED <<initialized, password, invoice_data, lines_data, attachment_data, state,
                   tax_amount, invoice_id, i, j, vat_data_to_fix, result, returned,
                   next_id, remote_lines, computed, inv_state, attachments>>

\* Post with the test of the state inverted
PostWhenDraft ==
    /\ pc = "post"
    /\ IF state # "open"
       THEN /\ calls' = Wrapped(calls, initialized,
                                Call("exec_workflow", "account.invoice", "invoice_open", invoice_id))
            /\ inv_state' = "open"
       ELSE UNCHANGED <<calls, inv_state>>
    /\ pc' = "attach"
    /\ initialized' = TRUE
    /\ password' = PasswordAfter(TRUE, initialized, password)
    /\ UNCHANGED resolver_vars
    /\ UNCHANGED <<client_vars, returned, error, log, next_id, remote_lines,
                   computed, tax_lines, attachments>>

\* if state == 'open': self.exec_workflow('account.invoice', 'invoice_open', invoice_id)
Post ==
    /\ pc = "post"
    /\ IF state = "open"
       THEN /\ calls' = Wrapped(calls, initialized,
                                Call("exec_workflow", "account.invoice", "invoice_open", invoice_id))
            /\ inv_state' = "open"
       ELSE UNCHANGED <<calls, inv_state>>
    /\ pc' = "attach"
    /\ initialized' = (initialized \/ state = "open")
    /\ password' = PasswordAfter(state = "open", initialized, password)
    /\ UNCHANGED resolver_vars
    /\ UNCHANGED <<client_vars, returned, error, log, next_id, remote_lines,
                   computed, tax_lines, attachments>>

\* if attachment_data: re-read the invoice, fill res_id and, when the
\* invoice has a number, res_name; create the attachment; the debug
\* message that follows reads attachment_data['name']; then return
\* invoice_id
Attach ==
    /\ pc = "attach"
    /\ IF attachment_data.keys # {}
       THEN LET number == InvoiceNumber(inv_state, invoice_id)
                att == [keys |-> attachment_data.keys \cup {"res_id"}
                                   \cup (IF number # 0 THEN {"res_name"} ELSE {}),
                        res_id |-> invoice_id,
                        res_name |-> IF number # 0 THEN number
                                     ELSE attachment_data.res_name]
            IN /\ attachment_data' = att
               /\ attachments' = Append(attachments, att)
               /\ calls' = Append(Wrapped(calls, initialized,
                                          Call("browse", "account.invoice", "", invoice_id)),
                                  Call("create", "ir.attachment", "", next_id))
               /\ next_id' = next_id + 1
       ELSE UNCHANGED <<attachment_data, attachments, calls, next_id>>
    /\ IF attachment_data.keys # {} /\ "name" \notin attachment_data.keys
       THEN Raise("KeyError") /\ returned' = returned
       ELSE /\ returned' = Some(invoice_id)
            /\ pc' = "done"
            /\ error' = error
    /\ initialized' = (initialized \/ attachment_data.keys # {})
    /\ password' = PasswordAfter(attachment_data.keys # {}, initialized, password)
    /\ UNCHANGED resolver_vars
    /\ UNCHANGED <<invoice_data, lines_data, state, tax_amount,
                   invoice_id, i, j, vat_data_to_fix, result, log,
                   remote_lines, computed, tax_lines, inv_state>>

Next ==
    \/ CreateInvoice
    \/ CreateHeader
    \/ CreateLine
    \/ ComputeTaxes
    \/ ReadTaxLines
    \/ CollectLine
    \/ ForceDraft
    \/ CheckTaxCodes
    \/ FixTaxLine
    \/ FixSingle
    \/ Post
    \/ Attach

Spec == Init /\ [][Next]_vars

\* create_invoice against a gateway that may fail the create of a line
NextLineFailure ==
    \/ Next
    \/ CreateLineFails

SpecLineFailure == Init /\ [][NextLineFailure]_vars

\* ------------------------------------------------------------ resolvers
\* the number of resolver and wrapper operations run on one client
MaxOps == 2

\* the vat_index values passed to fetch_tax / fetch_product and what
\* float(vat_index) gives, in tenths (FloatOfText: the text compared
\* with '0' instead)
VatIndexes == {"default", "0", "0.0", "20", "19.6"}
FloatOfText(v) == CASE v = "0" -> 0 [] v = "0.0" -> 1 [] v = "20" -> 200 [] v = "19.6" -> 196
FloatOf(v) == CASE v = "0" -> 0 [] v = "0.0" -> 0 [] v = "20" -> 200 [] v = "19.6" -> 196

\* tax.amount * 100 of the account.tax records, in tenths
TaxPercentOf == [t \in TaxIds |-> CASE t = 7 -> 200 [] t = 8 -> 196 [] t = 9 -> 50]

\* the id lists the gateway may answer to a search or to get_default
TaxIdLists == {<<>>, <<7>>, <<8>>, <<7, 9>>}
ProductIdLists == {<<>>, <<21>>, <<21, 22>>}
AccountIdLists == {<<>>, <<31>>, <<31, 32>>}
PartnerIdLists == {<<>>, <<51>>, <<51, 52>>}
AccountCodes == {"401"}
PartnerNames == {"Acme"}

\* '%2d' % n and '%2.1f' % (n / 10)
FormatInt(n) == IF n < 10 THEN " " \o ToString(n) ELSE ToString(n)
FormatOneDecimal(n) == ToString(n \div 10) \o "." \o ToString(n % 10)

\* the text of a tax in a product name: '0' without tax, else
\* tax.amount * 100 as an integer when it is one, with one decimal if not
TaxText(tax) ==
    IF tax = None THEN "0"
    ELSE LET text == TaxPercentOf[tax[1].id]
         IN IF text % 10 = 0 THEN FormatInt(text \div 10) ELSE FormatOneDecimal(text)

\* ','.join(re.split('\.', s)): every dot of s becomes a comma
RECURSIVE CommaForDot(_)
CommaForDot(s) ==
    IF s = "" THEN ""
    ELSE (IF Head(s) = "." THEN "," ELSE Head(s)) \o CommaForDot(Tail(s))

ProductName(tax) == CommaForDot("Produits et Services " \o TaxText(tax))

\* the client and the gateway's call log and id counter as one record,
\* threaded through the statements of an operation; ret and err are the
\* outcome so far
ClientState ==
    [calls |-> calls, criteria |-> criteria, initialized |-> initialized,
     password |-> password, taxes_cache |-> taxes_cache,
     products_cache |-> products_cache, log |-> log, next_id |-> next_id,
     ret |-> None, err |-> ""]

\* Client.login on a gateway that refuses the credentials
LoginFails(cs) == Append(cs, Call("login", "", "raised", 0))

\* a wrapper without its login
ViaWithoutLogin(s, ok, c) == [s EXCEPT !.calls = Append(@, c)]

\* Client.login: the gateway refuses (ok false) and login raises, or it
\* accepts, and then the password is dropped and the client initialized
login(s, ok) ==
    IF ~ok
    THEN [s EXCEPT !.calls = LoginFails(@), !.err = "LoginError"]
    ELSE [s EXCEPT !.calls = Login(@), !.initialized = TRUE, !.password = None]

\* a wrapper (execute, get, read, search, create, exec_workflow, browse):
\* login when not initialized, then the call c
Via(s, ok, c) ==
    LET t == IF s.initialized THEN s ELSE login(s, ok)
    IN IF t.err # "" THEN t ELSE [t EXCEPT !.calls = Append(@, c)]

\* Client.search: the criteria reach the gateway, which answers ids
SearchVia(s, ok, model, args, ids) ==
    LET t == Via(s, ok, Call("search", model, "", 0))
    IN IF t.err # "" THEN t
       ELSE [t EXCEPT !.criteria = Append(@, [model |-> model, args |-> args, ids |-> ids])]

\* Client.browse of one id: a new record object each time
BrowseVia(s, ok, model, id) ==
    LET t == Via(s, ok, Call("browse", model, "", id))
    IN IF t.err # "" THEN t
       ELSE [t EXCEPT !.ret = Some([id |-> id, obj |-> Len(t.calls)])]

Failed(s, e) == [s EXCEPT !.err = e, !.ret = None]
Warned(s, msg, arg) == [s EXCEPT !.log = Append(@, Logged("warning", msg, arg))]

\* `elif len(ids) > 1` never true
SeveralNever(ids) == FALSE

\* `elif len(ids) > 1`
Several(ids) == Len(ids) > 1

\* the first `if not customer_ids` of fetch_partner never true
NoMatchNever(ids) == FALSE

\* the first `if not customer_ids` of fetch_partner
NoMatch(ids) == ids = <<>>

\* `if vat_index in self.taxes_cache` never true
InCacheNever(cache, k) == FALSE

\* `if vat_index in self.taxes_cache` / `in self.products_cache`
InCache(cache, k) == k \in DOMAIN cache

\* fetch_tax(vat_index) from client state s; ids is the gateway's answer
\* to the lookup it makes
fetch_tax(s, vat_index, ok, ids) ==
    IF InCache(s.taxes_cache, vat_index)
    THEN [s EXCEPT !.ret = Some(s.taxes_cache[vat_index])]
    ELSE IF vat_index = "default"
    THEN LET t == Via(s, ok, Call("execute", "ir.values", "get_default", 0))
         IN IF t.err # "" THEN t
            ELSE IF ids = <<>> THEN Failed(t, "IndexError")
            ELSE LET u == BrowseVia(t, ok, "account.tax", ids[1])
                 IN [u EXCEPT !.taxes_cache = DictSet(@, vat_index, u.ret[1])]
    ELSE IF FloatOf(vat_index) = 0
    THEN [s EXCEPT !.ret = None]
    ELSE LET t == SearchVia(s, ok, "account.tax",
                            << <<"description", "=", "ACH-" \o vat_index>> >>, ids)
         IN IF t.err # "" THEN t
            ELSE IF ids = <<>> THEN Failed(t, "tax is missing in account.tax")
            ELSE IF Several(ids)
            THEN Failed(Warned(t, "Got several ids", Len(ids)),
                        "More than one tax with description")
            ELSE LET u == BrowseVia(t, ok, "account.tax", ids[1])
                 IN [u EXCEPT !.taxes_cache = DictSet(@, vat_index, u.ret[1])]

\* fetch_product(vat_index); pids is the gateway's answer to the product
\* search
fetch_product(s, vat_index, ok, ids, pids) ==
    IF InCache(s.products_cache, vat_index)
    THEN [s EXCEPT !.ret = Some(s.products_cache[vat_index])]
    ELSE LET t == fetch_tax(s, vat_index, ok, ids)
         IN IF t.err # "" THEN t
            ELSE LET description == ProductName(t.ret)
                     u == SearchVia([t EXCEPT !.ret = None], ok, "product.product",
                                    << <<"name_template", "ilike", description>> >>,
                                    pids)
                 IN IF u.err # "" THEN u
                    ELSE IF pids = <<>> THEN Failed(u, "is missing in product.product")
                    ELSE IF Several(pids)
                    THEN Failed(Warned(u, "Got several ids", Len(pids)),
                                "More than one product")
                    ELSE LET w == BrowseVia(u, ok, "product.product", pids[1])
                         IN [w EXCEPT !.products_cache = DictSet(@, vat_index, w.ret[1])]

\* fetch_account(code)
fetch_account(s, code, ok, ids) ==
    LET t == SearchVia(s, ok, "account.account", << <<"code", "=", code>> >>, ids)
    IN IF t.err # "" THEN t
       ELSE IF ids = <<>> THEN Failed(t, "Account not found")
       ELSE IF Several(ids) THEN Failed(t, "Found multiple accounts with code")
       ELSE BrowseVia(t, ok, "account.account", ids[1])

\* the retry criteria with every role condition removed
RetryArgsNameOnly(search_args, name) == << <<"name", "ilike", name>> >>

\* search_args.pop(0); search_args.append(('name', 'ilike', name))
RetryArgs(search_args, name) == Append(Tail(search_args), <<"name", "ilike", name>>)

\* fetch_partner(name, customer, supplier); ids answers the exact-name
\* search, ids2 the retry; the value 1 of a role condition is kept as
\* the text "1"
fetch_partner(s, name, customer, supplier, ok, ids, ids2) ==
    LET search_args == << <<"name", "=", name>> >>
                       \o (IF customer THEN << <<"customer", "=", "1">> >> ELSE <<>>)
                       \o (IF supplier THEN << <<"supplier", "=", "1">> >> ELSE <<>>)
        t == SearchVia(s, ok, "res.partner", search_args, ids)
        u == IF t.err = "" /\ NoMatch(ids)
             THEN SearchVia(t, ok, "res.partner", RetryArgs(search_args, name), ids2)
             ELSE t
        customer_ids == IF NoMatch(ids) THEN ids2 ELSE ids
    IN IF u.err # "" THEN u
       ELSE IF customer_ids = <<>> THEN Failed(u, "Supplier not found")
       ELSE IF Several(customer_ids) THEN Failed(u, "Found multiple customers with name")
       ELSE BrowseVia(u, ok, "res.partner", customer_ids[1])

\* the client and the gateway after an operation that ended in state r
Finish(op, arg, r) ==
    /\ calls' = r.calls
    /\ criteria' = r.criteria
    /\ initialized' = r.initialized
    /\ password' = r.password
    /\ taxes_cache' = r.taxes_cache
    /\ products_cache' = r.products_cache
    /\ log' = r.log
    /\ history' = Append(history, [op |-> op, arg |-> arg, ret |-> r.ret, err |-> r.err,
                                   from |-> Len(calls), to |-> Len(r.calls),
                                   was |-> initialized,
                                   taxes_before |-> taxes_cache,
                                   taxes_after |-> r.taxes_cache,
                                   products_before |-> products_cache,
                                   products_after |-> r.products_cache])
    /\ next_id' = r.next_id
    /\ UNCHANGED <<pc, client_vars, returned, error, remote_lines, computed,
                   tax_lines, inv_state, attachments>>

FetchTax ==
    /\ Len(history) < MaxOps
    /\ \E v \in VatIndexes, ok \in BOOLEAN, ids \in TaxIdLists :
           Finish("fetch_tax", v, fetch_tax(ClientState, v, ok, ids))

FetchProduct ==
    /\ Len(history) < MaxOps
    /\ \E v \in VatIndexes, ok \in BOOLEAN, ids \in TaxIdLists, pids \in ProductIdLists :
           Finish("fetch_product", v, fetch_product(ClientState, v, ok, ids, pids))

FetchAccount ==
    /\ Len(history) < MaxOps
    /\ \E code \in AccountCodes, ok \in BOOLEAN, ids \in AccountIdLists :
           Finish("fetch_account", code, fetch_account(ClientState, code, ok, ids))

FetchPartner ==
    /\ Len(history) < MaxOps
    /\ \E name \in PartnerNames, customer \in BOOLEAN, supplier \in BOOLEAN,
          ok \in BOOLEAN, ids \in PartnerIdLists, ids2 \in PartnerIdLists :
           Finish("fetch_partner", name,
                  fetch_partner(ClientState, name, customer, supplier, ok, ids, ids2))

FetchCustomer ==
    /\ Len(history) < MaxOps
    /\ \E name \in PartnerNames, ok \in BOOLEAN,
          ids \in PartnerIdLists, ids2 \in PartnerIdLists :
           Finish("fetch_customer", name,
                  fetch_partner(ClientState, name, TRUE, FALSE, ok, ids, ids2))

FetchSupplier ==
    /\ Len(history) < MaxOps
    /\ \E name \in PartnerNames, ok \in BOOLEAN,
          ids \in PartnerIdLists, ids2 \in PartnerIdLists :
           Finish("fetch_supplier", name,
                  fetch_partner(ClientState, name, FALSE, TRUE, ok, ids, ids2))

\* the gateway wrappers called directly; each returns what the gateway
\* returned: the ids found, the record browsed, the id created, or the
\* result of the remote method
WrapperOps == {"execute", "get", "read", "search", "create", "exec_workflow", "browse"}

wrapper(s, op, ok, ids) ==
    IF op = "search"
    THEN LET t == SearchVia(s, ok, "res.partner", <<>>, ids)
         IN IF t.err # "" THEN t ELSE [t EXCEPT !.ret = Some(ids)]
    ELSE IF op = "browse"
    THEN BrowseVia(s, ok, "res.partner", 51)
    ELSE IF op = "create"
    THEN LET t == Via(s, ok, Call("create", "res.partner", "", s.next_id))
         IN IF t.err # "" THEN t
            ELSE [t EXCEPT !.ret = Some(s.next_id), !.next_id = @ + 1]
    ELSE LET t == Via(s, ok, Call(op, "res.partner", "", 0))
         IN IF t.err # "" THEN t ELSE [t EXCEPT !.ret = Some(TRUE)]

Wrapper ==
    /\ Len(history) < MaxOps
    /\ \E op \in WrapperOps, ok \in BOOLEAN, ids \in PartnerIdLists :
           Finish(op, "", wrapper(ClientState, op, ok, ids))

\* Client.login called directly
LoginCall ==
    /\ Len(history) < MaxOps
    /\ \E ok \in BOOLEAN : Finish("login", "", login(ClientState, ok))

NextClient ==
    \/ FetchTax
    \/ FetchProduct
    \/ FetchAccount
    \/ FetchPartner
    \/ FetchCustomer
    \/ FetchSupplier
    \/ Wrapper
    \/ LoginCall

SpecClient == Init /\ [][NextClient]_vars

TypeOK ==
    /\ pc \in {"idle", "header", "lines", "taxes", "reconcile", "collect", "skip",
               "check", "fix", "single", "post", "attach", "done", "raised"}
    /\ initialized \in BOOLEAN
    /\ returned \in {None, Some(invoice_id)}
    /\ (pc = "raised") = (error # "")

\* ======================================================================
\* Properties
\* ======================================================================
Terminal == pc \in {"done", "raised"}

CallsOf(op, model) == {k \in DOMAIN calls : calls[k].op = op /\ calls[k].model = model}
HeaderCreates == CallsOf("create", "account.invoice")
LineCreates == CallsOf("create", "account.invoice.line")
TaxResets == {k \in CallsOf("execute", "account.invoice") : calls[k].name = "button_reset_taxes"}
Writes == {k \in DOMAIN calls : calls[k].op = "write_record"}
WritesOf(n) == {k \in Writes : calls[k].arg = n}
Opens == {k \in CallsOf("exec_workflow", "account.invoice") : calls[k].name = "invoice_open"}
AttachmentCreates == CallsOf("create", "ir.attachment")
InvoiceReads == CallsOf("browse", "account.invoice")

\* button_reset_taxes returned a truthy result
TaxesComputed == result = Some(TRUE)

\* a line spec carries vat_amount and an invoice_line_tax_id naming
\* exactly one tax
HasBothFields(line) == {"vat_amount", "invoice_line_tax_id"} \subseteq line.keys
NamesOneTax(line) ==
    /\ Len(line.invoice_line_tax_id) = 1
    /\ Len(line.invoice_line_tax_id[1]) = 1
Qualifies(line) ==
    /\ HasBothFields(line)
    /\ NamesOneTax(line)
    /\ line.invoice_line_tax_id[1][1] \in TaxIds
AllQualify == \A k \in DOMAIN lines_data : Qualifies(lines_data[k])
CodeOfLine(k) == TaxCodeOf[lines_data[k].invoice_line_tax_id[1][1]]
ExpectedCodes == {CodeOfLine(k) : k \in DOMAIN lines_data}
LinesOfCode(c) == {k \in DOMAIN lines_data : CodeOfLine(k) = c}
LastLineOfCode(c) == CHOOSE k \in LinesOfCode(c) : \A m \in LinesOfCode(c) : m <= k
\* the expected amount of a tax code: the vat_amount of the last line spec of that code
ExpectedOfCode(c) == lines_data[LastLineOfCode(c)].vat_amount

\* ----------------------------------------------------------------- C1
\* C1: a call with an empty invoice_data, an empty lines_data or a state
\* outside {draft, open} raises before any remote call: no login, no
\* create, no execute, no exec_workflow; nothing exists remotely and the
\* caller's line and attachment dicts are as they were passed.
C1_PreconditionFailureIsClean ==
    (pc # "idle" /\ (invoice_data = {} \/ lines_data = <<>> \/ state \notin {"draft", "open"}))
        => /\ pc = "raised"
           /\ error \in {"Missing invoice_data", "Missing lines_data", "State is not valid"}
           /\ calls = <<>>
           /\ ~initialized
           /\ inv_state = "none"
           /\ remote_lines = <<>>
           /\ attachments = <<>>
           /\ \A k \in DOMAIN lines_data : "invoice_id" \notin lines_data[k].keys
           /\ attachment_data \in Attachments

C1_Witness ==
    /\ pc = "raised"
    /\ invoice_data # {}
    /\ Len(lines_data) = MaxLines
    /\ state = "cancel"
    /\ attachment_data = SomeAttachment

\* ----------------------------------------------------------------- C2
\* C2: the remote actions of a run occur in stage order: the header
\* create precedes every line create; the lines are created one per line
\* spec in the caller's order, each carrying the created invoice id;
\* button_reset_taxes comes only after all lines; a tax-line write comes
\* before invoice_open; the attachment create comes after invoice_open;
\* a run that completes returns the id the header create produced.
C2_StageOrder ==
    LET headers == HeaderCreates
        creates == LineCreates
        resets == TaxResets
        opens == Opens
    IN
    /\ Cardinality(headers) <= 1
    /\ creates # {} => \E h \in headers : \A l \in creates : h < l
    /\ Cardinality(creates) = Len(remote_lines)
    /\ Len(remote_lines) <= Len(lines_data)
    /\ \A k \in DOMAIN remote_lines :
          /\ remote_lines[k] = lines_data[k]
          /\ "invoice_id" \in remote_lines[k].keys
          /\ \E h \in headers : remote_lines[k].invoice_id = calls[h].arg
    /\ \A k \in DOMAIN lines_data :
          k > Len(remote_lines) => "invoice_id" \notin lines_data[k].keys
    /\ \A x \in resets :
          /\ Cardinality(creates) = Len(lines_data)
          /\ \A l \in creates : l < x
    /\ \A w \in Writes : \A o \in opens : w < o
    /\ \A o \in opens : \E x \in resets : x < o
    /\ \A a \in AttachmentCreates :
          /\ \A o \in opens : o < a
          /\ \E x \in resets : x < a
    /\ pc = "done" => \E h \in headers : returned = Some(calls[h].arg)

C2_Witness ==
    /\ pc = "done"
    /\ Len(remote_lines) = MaxLines
    /\ remote_lines[1] # remote_lines[2]
    /\ Opens # {}
    /\ AttachmentCreates # {}
    /\ Truthy(tax_amount)

\* ----------------------------------------------------------------- C3
\* C3: with an expected tax_amount and exactly one computed tax line, a
\* differing amount is overwritten with tax_amount and persisted with
\* exactly one write_record call, and create_invoice goes on to return
\* the invoice id; equal amounts cause no write_record call.
C3_SingleTaxLineCorrected ==
    (Terminal /\ Truthy(tax_amount) /\ TaxesComputed /\ Len(computed) = 1)
        => IF computed[1].amount # tax_amount[1]
           THEN /\ tax_lines[1].amount = tax_amount[1]
                /\ Cardinality(Writes) = 1
                /\ pc = "done"
                /\ returned = Some(invoice_id)
           ELSE Cardinality(Writes) = 0

\* ----------------------------------------------------------------- C4
\* C4: the 0.80 threshold only selects the severity: a single tax line
\* whose computed amount differs from the expected amount is logged as a
\* warning iff the difference exceeds 0.80 and at the routine severity
\* otherwise, and either way ends with the expected amount persisted.
C4_ThresholdSelectsSeverityOnly ==
    (Terminal /\ Truthy(tax_amount) /\ TaxesComputed /\ Len(computed) = 1
       /\ computed[1].amount # tax_amount[1])
        => /\ (\E n \in DOMAIN log : log[n].msg = "fix tax_line amount" /\ log[n].level = "warning")
                <=> Abs(computed[1].amount - tax_amount[1]) > 80
           /\ (\E n \in DOMAIN log : log[n].msg = "fix tax_line amount" /\ log[n].level = "important")
                <=> Abs(computed[1].amount - tax_amount[1]) <= 80
           /\ tax_lines[1].amount = tax_amount[1]
           /\ WritesOf(1) # {}

\* ----------------------------------------------------------------- C5
\* C5: with tax_amount supplied, more than one computed tax line and a
\* line spec without vat_amount, no tax line is written, a requested
\* open state is forced to draft so invoice_open is never issued, and
\* the invoice id is returned with header, lines and taxes in place.
C5_IncompleteVatDataSkips ==
    (Terminal /\ Truthy(tax_amount) /\ TaxesComputed /\ Len(computed) > 1
       /\ \E k \in DOMAIN lines_data : "vat_amount" \notin lines_data[k].keys)
        => /\ Writes = {}
           /\ tax_lines = computed
           /\ state = "draft"
           /\ Opens = {}
           /\ inv_state = "draft"
           /\ pc = "done"
           /\ returned = Some(invoice_id)
           /\ Len(remote_lines) = Len(lines_data)

\* ----------------------------------------------------------------- C6
\* C6: in the multiple tax lines case, a line spec that lacks vat_amount
\* or invoice_line_tax_id, or whose invoice_line_tax_id does not name
\* exactly one tax, makes the reconciliation be abandoned without an
\* error: nothing is written and a requested open state becomes draft.
C6_UnqualifiedLineAbandons ==
    (Terminal /\ Truthy(tax_amount) /\ TaxesComputed /\ Len(computed) > 1
       /\ \E k \in DOMAIN lines_data :
             ~HasBothFields(lines_data[k]) \/ ~NamesOneTax(lines_data[k]))
        => /\ pc = "done"
           /\ error = ""
           /\ Writes = {}
           /\ tax_lines = computed
           /\ state = "draft"
           /\ Opens = {}

\* ----------------------------------------------------------------- C7
\* C7: when every line spec qualifies for reconciliation and some
\* computed tax line has a tax code outside the expected-amount mapping,
\* no tax line is corrected or written, also not a recognised one whose
\* amount differs, and create_invoice does not raise but returns the id.
C7_UnexpectedTaxCodeCorrectsNothing ==
    (Truthy(tax_amount) /\ TaxesComputed /\ Len(computed) > 1 /\ AllQualify
       /\ \E k \in DOMAIN computed : computed[k].tax_code_id \notin ExpectedCodes)
        => /\ tax_lines = computed
           /\ Writes = {}
           /\ pc # "raised"
           /\ error = ""
           /\ (pc = "done" => /\ returned = Some(invoice_id)
                              /\ invoice_id = calls[CHOOSE h \in HeaderCreates : TRUE].arg)

\* ----------------------------------------------------------------- C8
\* C8: multiple tax lines, all tax codes recognised: the expected amounts
\* are keyed by tax code, the last line spec of a code winning; after
\* the reconciliation every tax line holds the expected amount of its
\* code, each differing line written once, each equal line not written.
C8_AllRecognisedCorrected ==
    (Terminal /\ Truthy(tax_amount) /\ TaxesComputed /\ Len(computed) > 1 /\ AllQualify
       /\ \A k \in DOMAIN computed : computed[k].tax_code_id \in ExpectedCodes)
        => /\ pc = "done"
           /\ \A k \in DOMAIN computed :
                 /\ tax_lines[k].amount = ExpectedOfCode(computed[k].tax_code_id)
                 /\ Cardinality(WritesOf(k)) =
                        IF computed[k].amount # ExpectedOfCode(computed[k].tax_code_id)
                        THEN 1 ELSE 0

\* ----------------------------------------------------------------- C9
\* the call of the end-to-end example: a non-empty header, one line spec
\* with vat_amount 10.0 and invoice_line_tax_id [(6,0,[7])], state open,
\* nothing else; the gateway computes one tax line of amount 10.50
EndToEndCase ==
    /\ invoice_data # {}
    /\ Len(lines_data) = 1
    /\ {"vat_amount", "invoice_line_tax_id"} \subseteq lines_data[1].keys
    /\ lines_data[1].vat_amount = 1000
    /\ lines_data[1].invoice_line_tax_id = << <<7>> >>
    /\ state = "open"
    /\ tax_amount = None
    /\ attachment_data = NoAttachment
    /\ TaxesComputed
    /\ Len(computed) = 1
    /\ computed[1].amount = 1050

\* C9 as stated: the end-to-end call ends with the invoice open, the tax
\* line amount corrected to 10.0 and no attachment created.
C9_EndToEndAsStated ==
    (pc = "done" /\ EndToEndCase)
        => /\ inv_state = "open"
           /\ Opens # {}
           /\ tax_lines[1].amount = 1000
           /\ attachments = <<>>

\* C9 amended: the end-to-end call ends with the invoice open, the tax
\* line left at the computed 10.50 (no tax_amount was passed, so nothing
\* is reconciled or written) and no attachment created.
C9_EndToEndAmended ==
    (Terminal /\ EndToEndCase)
        => /\ pc = "done"
           /\ returned = Some(invoice_id)
           /\ inv_state = "open"
           /\ Cardinality(Opens) = 1
           /\ tax_lines[1].amount = 1050
           /\ Writes = {}
           /\ InvoiceReads = {}
           /\ attachments = <<>>
           /\ AttachmentCreates = {}

C9_Witness ==
    /\ pc = "done"
    /\ EndToEndCase
    /\ Opens # {}
    /\ Len(calls) = 5

\* ---------------------------------------------------------------- C10
\* C10: a falsy result of button_reset_taxes makes create_invoice raise
\* and do nothing more: no tax line is read or written, invoice_open is
\* not issued, no attachment is created, and the header and lines stay
\* as created (button_reset_taxes is the last remote call).
C10_FalsyTaxResultIsFatal ==
    (result = Some(FALSE))
        => /\ pc = "raised"
           /\ error = "Unable to compute taxes, WTF"
           /\ returned = None
           /\ calls[Len(calls)].op = "execute"
           /\ calls[Len(calls)].name = "button_reset_taxes"
           /\ \A k \in DOMAIN calls : calls[k].op \in {"login", "create", "execute"}
           /\ AttachmentCreates = {}
           /\ Cardinality(TaxResets) = 1
           /\ tax_lines = computed
           /\ inv_state = "draft"
           /\ Len(remote_lines) = Len(lines_data)
           /\ attachments = <<>>

C10_Witness ==
    /\ result = Some(FALSE)
    /\ state = "open"
    /\ Truthy(tax_amount)
    /\ attachment_data = SomeAttachment
    /\ Len(remote_lines) = MaxLines

\* ------------------------------------------------- resolver properties
ZeroIndexes == {"0", "0.0"}
PartnerOps == {"fetch_partner", "fetch_customer", "fetch_supplier"}
RoleFields == {"customer", "supplier"}

\* the remote calls an operation issued, and the searches among them
RemoteCalls(h) == (h.from + 1)..h.to
SearchCalls(h) == {k \in RemoteCalls(h) : calls[k].op = "search"}
OpsOf(h) == [k \in 1..(h.to - h.from) |-> calls[h.from + k].op]

\* the criteria and answer of the search issued as call k
SearchesUpTo(k) == Cardinality({m \in 1..k : calls[m].op = "search"})
SearchOf(k) == criteria[SearchesUpTo(k)]
FirstSearch(h) == CHOOSE k \in SearchCalls(h) : \A m \in SearchCalls(h) : k <= m
LastSearch(h) == CHOOSE k \in SearchCalls(h) : \A m \in SearchCalls(h) : m <= k

\* two sequential fetch_tax calls with the same index, both returning,
\* the first one made when the index is not cached yet
TwoFetchTax(n) ==
    /\ n + 1 \in DOMAIN history
    /\ history[n].op = "fetch_tax"
    /\ history[n + 1].op = "fetch_tax"
    /\ history[n].arg = history[n + 1].arg
    /\ history[n].err = ""
    /\ history[n + 1].err = ""
    /\ history[n].arg \notin DOMAIN history[n].taxes_before

\* ---------------------------------------------------------------- C11
\* C11 as stated: two sequential fetch_tax calls with the same valid index
\* issue exactly one remote search in total, the second call issues no
\* remote call, and both return the same reference.
C11_OneSearchForTwoCalls ==
    \A n \in DOMAIN history :
        TwoFetchTax(n)
            => /\ Cardinality(SearchCalls(history[n]) \cup SearchCalls(history[n + 1])) = 1
               /\ history[n + 1].to = history[n + 1].from
               /\ history[n].ret = history[n + 1].ret

\* C11 amended: of two sequential fetch_tax calls with the same index the
\* second issues no remote call and returns what the first returned; the
\* first makes the lookup once, which is one search and one browse for a
\* non-zero numeric index, one execute of get_default and one browse (no
\* search) for 'default', and no remote call at all for a zero index,
\* where both calls return None.
C11_LookupOnceThenCache ==
    \A n \in DOMAIN history :
        TwoFetchTax(n)
            => /\ history[n + 1].to = history[n + 1].from
               /\ history[n].ret = history[n + 1].ret
               /\ IF history[n].arg \in ZeroIndexes
                  THEN /\ history[n].to = history[n].from
                       /\ history[n].ret = None
                  ELSE /\ history[n].ret # None
                       /\ OpsOf(history[n]) =
                              (IF history[n].was THEN <<>> ELSE <<"login">>)
                              \o (IF history[n].arg = "default"
                                  THEN <<"execute", "browse">>
                                  ELSE <<"search", "browse">>)

C11_Witness ==
    /\ TwoFetchTax(1)
    /\ history[1].arg = "19.6"
    /\ history[1].ret # None
    /\ history[2].ret = history[1].ret
    /\ Len(calls) = 3

\* ---------------------------------------------------------------- C12
\* C12: fetch_tax of a zero index ("0", "0.0") returns None, issues no
\* remote call and leaves taxes_cache as it was; taxes_cache never holds
\* a zero index and every value it holds is a tax record.
C12_ZeroTaxShortCircuit ==
    /\ \A n \in DOMAIN history :
           (history[n].op = "fetch_tax" /\ history[n].arg \in ZeroIndexes)
               => /\ history[n].ret = None
                  /\ history[n].err = ""
                  /\ history[n].to = history[n].from
                  /\ history[n].taxes_after = history[n].taxes_before
    /\ \A k \in DOMAIN taxes_cache :
           /\ k \notin ZeroIndexes
           /\ taxes_cache[k].id \in TaxIds

C12_Witness ==
    /\ Len(history) = 2
    /\ history[1].op = "fetch_tax"
    /\ history[1].arg = "20"
    /\ history[2].op = "fetch_tax"
    /\ history[2].arg = "0.0"
    /\ DOMAIN taxes_cache = {"20"}
    /\ history[2].ret = None

\* ---------------------------------------------------------------- C13
\* the operations in which a search was answered with several matches
AmbiguousSearches(h) == {k \in SearchCalls(h) : Len(SearchOf(k).ids) > 1}
ResolverOps == {"fetch_tax", "fetch_product", "fetch_account"} \cup PartnerOps

\* C13 as stated: a resolver whose search returns more than one match
\* raises, issues no remote call after that search, returns nothing and
\* adds no entry to taxes_cache or products_cache.
C13_AmbiguityAsStated ==
    \A n \in DOMAIN history :
        (history[n].op \in ResolverOps /\ AmbiguousSearches(history[n]) # {})
            => /\ history[n].err # ""
               /\ history[n].ret = None
               /\ AmbiguousSearches(history[n]) = {history[n].to}
               /\ history[n].taxes_after = history[n].taxes_before
               /\ history[n].products_after = history[n].products_before

\* C13 amended: a resolver whose search returns more than one match
\* raises, issues no remote call after that search, returns nothing and
\* adds no entry to products_cache; taxes_cache gains no entry either,
\* except that fetch_product whose product search is ambiguous keeps the
\* tax its nested fetch_tax resolved and cached before that search.
C13_AmbiguityRaises ==
    \A n \in DOMAIN history :
        (history[n].op \in ResolverOps /\ AmbiguousSearches(history[n]) # {})
            => /\ history[n].err # ""
               /\ history[n].ret = None
               /\ AmbiguousSearches(history[n]) = {history[n].to}
               /\ history[n].products_after = history[n].products_before
               /\ \A k \in DOMAIN history[n].taxes_before :
                      /\ k \in DOMAIN history[n].taxes_after
                      /\ history[n].taxes_after[k] = history[n].taxes_before[k]
               /\ \A k \in DOMAIN history[n].taxes_after \ DOMAIN history[n].taxes_before :
                      /\ history[n].op = "fetch_product"
                      /\ SearchOf(history[n].to).model = "product.product"
                      /\ k = history[n].arg
                      /\ history[n].taxes_after[k].obj < history[n].to

C13_Witness ==
    /\ Len(history) = 2
    /\ history[1].op = "fetch_product"
    /\ AmbiguousSearches(history[1]) # {}
    /\ history[1].taxes_after # history[1].taxes_before
    /\ history[2].op = "fetch_customer"
    /\ Cardinality(SearchCalls(history[2])) = 2
    /\ AmbiguousSearches(history[2]) # {}

\* ---------------------------------------------------------------- C14
\* C14: in fetch_partner an exact-name search with exactly one match
\* returns that partner after one search only; with zero matches exactly
\* one partial-name search follows, whose single match is returned; zero
\* matches after both searches is an error.
C14_PartnerFallback ==
    \A n \in DOMAIN history :
        (history[n].op \in PartnerOps /\ SearchCalls(history[n]) # {})
            => LET h == history[n]
                   first == SearchOf(FirstSearch(h))
                   last == SearchOf(LastSearch(h))
               IN /\ first.args[1] = <<"name", "=", h.arg>>
                  /\ Len(first.ids) = 1
                         => /\ Cardinality(SearchCalls(h)) = 1
                            /\ h.err = ""
                            /\ h.ret # None
                            /\ h.ret[1].id = first.ids[1]
                  /\ Len(first.ids) = 0
                         => /\ Cardinality(SearchCalls(h)) = 2
                            /\ last.args[Len(last.args)] = <<"name", "ilike", h.arg>>
                            /\ Len(last.ids) = 1
                                   => /\ h.err = ""
                                      /\ h.ret # None
                                      /\ h.ret[1].id = last.ids[1]
                            /\ Len(last.ids) = 0
                                   => /\ h.err = "Supplier not found"
                                      /\ h.ret = None
                                      /\ LastSearch(h) = h.to

C14_Witness ==
    /\ Len(history) = 2
    /\ history[1].op = "fetch_partner"
    /\ Cardinality(SearchCalls(history[1])) = 1
    /\ history[1].err = ""
    /\ history[2].op = "fetch_supplier"
    /\ Cardinality(SearchCalls(history[2])) = 2
    /\ history[2].err = ""

\* ---------------------------------------------------------------- C15
HasRole(args) == \E k \in DOMAIN args : args[k][1] \in RoleFields
RoleOf(op) == IF op = "fetch_customer" THEN "customer" ELSE "supplier"

\* C15 as stated: the first search of fetch_partner filters by exact name
\* and by the requested role; the retry matches the name partially and
\* carries no customer or supplier condition.
C15_RetryDropsRole ==
    \A n \in DOMAIN history :
        (history[n].op \in PartnerOps /\ Cardinality(SearchCalls(history[n])) = 2)
            => LET h == history[n]
                   first == SearchOf(FirstSearch(h))
                   retry == SearchOf(LastSearch(h))
               IN /\ first.args[1] = <<"name", "=", h.arg>>
                  /\ h.op # "fetch_partner"
                         => first.args = <<first.args[1], <<RoleOf(h.op), "=", "1">> >>
                  /\ retry.args = << <<"name", "ilike", h.arg>> >>
                  /\ ~HasRole(retry.args)

\* C15 amended: the first search of fetch_partner filters by exact name
\* and by the requested role; the retry replaces the exact-name condition
\* by a case-insensitive partial match on the name and keeps every role
\* condition of the first search.
C15_RetryKeepsRole ==
    \A n \in DOMAIN history :
        (history[n].op \in PartnerOps /\ Cardinality(SearchCalls(history[n])) = 2)
            => LET h == history[n]
                   first == SearchOf(FirstSearch(h))
                   retry == SearchOf(LastSearch(h))
               IN /\ first.args[1] = <<"name", "=", h.arg>>
                  /\ h.op # "fetch_partner"
                         => first.args = <<first.args[1], <<RoleOf(h.op), "=", "1">> >>
                  /\ Len(retry.args) = Len(first.args)
                  /\ retry.args[Len(retry.args)] = <<"name", "ilike", h.arg>>
                  /\ \A k \in 2..Len(first.args) : retry.args[k - 1] = first.args[k]
                  /\ HasRole(retry.args) = HasRole(first.args)

C15_Witness ==
    /\ Len(history) = 1
    /\ history[1].op = "fetch_customer"
    /\ Cardinality(SearchCalls(history[1])) = 2
    /\ HasRole(SearchOf(LastSearch(history[1])).args)
    /\ history[1].err = ""

\* ---------------------------------------------------------------- C16
GoodLogins == {k \in DOMAIN calls : calls[k].op = "login" /\ calls[k].name # "raised"}

\* C16: every gateway call other than login follows a successful login;
\* an operation on a client that is not initialized starts with a login;
\* at most one login succeeds; the password is None whenever the client
\* is initialized; a failed login leaves the client uninitialized with
\* its password, so that the next operation logs in again.
C16_SessionInvariant ==
  (\A n \in DOMAIN history : history[n].op \in WrapperOps \cup ResolverOps) =>
    /\ \A k \in DOMAIN calls :
           calls[k].op # "login" => \E m \in GoodLogins : m < k
    /\ Cardinality(GoodLogins) <= 1
    /\ initialized = (GoodLogins # {})
    /\ initialized => password = None
    /\ ~initialized => password # None
    /\ \A n \in DOMAIN history :
           /\ (~history[n].was /\ history[n].to > history[n].from)
                  => calls[history[n].from + 1].op = "login"
           /\ history[n].was
                  => \A k \in RemoteCalls(history[n]) : calls[k].op # "login"
           /\ history[n].err = "LoginError"
                  => /\ ~history[n].was
                     /\ history[n].to = history[n].from + 1
                     /\ calls[history[n].to].name = "raised"
                     /\ n < Len(history) => ~history[n + 1].was
                     /\ n = Len(history) => ~initialized

C16_Witness ==
    /\ Len(history) = 2
    /\ history[1].err = "LoginError"
    /\ history[2].err = ""
    /\ history[2].op = "fetch_account"
    /\ calls[2].op = "login"
    /\ initialized
    /\ password = None

\* ---------------------------------------------------------------- C17
\* C17: an ir.attachment is created iff the run reaches its end with
\* non-empty attachment_data; the create directly follows a re-read of
\* the invoice made after any invoice_open; its payload carries res_id,
\* the invoice id, and carries res_name, the invoice number, iff the
\* invoice has a number then; without attachment data there is neither
\* a re-read nor a create.
C17_AttachmentStep ==
    /\ Cardinality(AttachmentCreates) = Len(attachments)
    /\ (AttachmentCreates # {}) = (pc = "done" /\ attachment_data.keys # {})
    /\ \A a \in AttachmentCreates :
           /\ a = Len(calls)
           /\ calls[a - 1] = Call("browse", "account.invoice", "", invoice_id)
           /\ \A o \in Opens : o < a - 1
           /\ attachments = <<attachment_data>>
           /\ "res_id" \in attachment_data.keys
           /\ attachment_data.res_id = calls[CHOOSE h \in HeaderCreates : TRUE].arg
           /\ ("res_name" \in attachment_data.keys) = (inv_state = "open")
           /\ inv_state = "open" => /\ attachment_data.res_name # 0
                                    /\ attachment_data.res_name
                                           = InvoiceNumber(inv_state, invoice_id)
    /\ AttachmentCreates = {}
           => /\ attachment_data \in Attachments
              /\ \A k \in InvoiceReads :
                     /\ k - 1 \in TaxResets
                     /\ Truthy(tax_amount)

\* ---------------------------------------------------------------- C18
FailedCalls == {k \in DOMAIN calls : calls[k].name = "raised"}

\* C18: when the create of the k-th line fails, create_invoice raises at
\* once with the header and exactly the first k-1 lines created; the
\* failed create is the last remote call (no retry, no delete, no tax
\* recompute, no write, no workflow call, no attachment).
C18_LineFailurePropagates ==
    (FailedCalls # {})
        => /\ pc = "raised"
           /\ error = "RemoteError"
           /\ returned = None
           /\ FailedCalls = {Len(calls)}
           /\ inv_state = "draft"
           /\ Cardinality(HeaderCreates) = 1
           /\ Len(remote_lines) = i - 1
           /\ Cardinality(LineCreates) = i
           /\ \A k \in DOMAIN remote_lines : remote_lines[k] = lines_data[k]
           /\ \A k \in DOMAIN calls : calls[k].op \in {"login", "create"}
           /\ AttachmentCreates = {}
           /\ computed = <<>>
           /\ attachments = <<>>

C18_Witness ==
    /\ error = "RemoteError"
    /\ Len(lines_data) = MaxLines
    /\ Len(remote_lines) = MaxLines - 1
    /\ state = "open"
    /\ Truthy(tax_amount)
    /\ attachment_data = SomeAttachment

\* ---------------------------------------------------------------- C19
\* the tax lines were read: the invoice was browsed right after
\* button_reset_taxes
TaxLinesRead == \E k \in InvoiceReads : k - 1 \in TaxResets
PastReconciliation == pc \in {"post", "attach", "done"}

\* C19: reconciliation is entered iff a tax_amount was supplied, 0
\* included: with a tax_amount the computed tax lines are read, zero tax
\* lines is fatal and a single differing tax line ends corrected; with
\* no tax_amount no tax line is read or written.
C19_ReconciledIffSupplied ==
    /\ tax_amount = None => ~TaxLinesRead /\ Writes = {} /\ tax_lines = computed
    /\ (tax_amount # None /\ PastReconciliation)
           => /\ TaxLinesRead
              /\ computed # <<>>
              /\ Len(computed) = 1 => tax_lines[1].amount = tax_amount[1]

\* ---------------------------------------------------------------- C20
\* the reconciliation met a tax line whose tax code no line spec expects
UnexpectedTaxCode ==
    /\ Truthy(tax_amount)
    /\ TaxesComputed
    /\ Len(computed) > 1
    /\ AllQualify
    /\ \E k \in DOMAIN computed : computed[k].tax_code_id \notin ExpectedCodes

\* C20: invoice_open is issued at most once, only when state 'open' was
\* requested, and never after the reconciliation met an unexpected tax
\* code and so left the tax lines uncorrected.
C20_PostingGuard ==
    /\ Cardinality(Opens) <= 1
    /\ Opens # {} => state = "open"
    /\ UnexpectedTaxCode => Opens = {}

====
